---- MODULE Spec2Model ----
(***************************************************************************)
(* Model of the quad-view contour tool of src/main.py: the VTIViewer main  *)
(* window (volume load, slice sliders, contour drawing session, per-slice  *)
(* contour store), the ContourInteractorStyle pick handler and the         *)
(* ImageSliceViewerWidget reslice plane.                                   *)
(*                                                                         *)
(* Python's None is the empty tuple and a present value v is <<v>>.        *)
(* Objects that the code shares by reference (the vtkPoints and the two    *)
(* vtkPolyData allocated by each toggle_drawing(True)) live in `heap` and  *)
(* are referred to by their allocation number.  A renderer is the set of   *)
(* props it holds (vtkViewport::AddViewProp ignores a prop it already has).*)
(***************************************************************************)
EXTENDS Integers, Sequences, FiniteSets, TLC

VARIABLES image_data, is_drawing, interactor_style,
          current_contour_points, current_contour_actor_2d,
          current_contour_actor_3d, current_contour_cubes,
          polydata_2d, polydata_3d, heap,
          renderer_2d, renderer_3d,
          axial_contours_per_slice, current_axial_slice,
          slider, controls_enabled, widget,
          calc_step, progress_visible, pending_advance, pending_load,
          vtp_file_index, current_vtp_actor, contours

vars == <<image_data, is_drawing, interactor_style,
          current_contour_points, current_contour_actor_2d,
          current_contour_actor_3d, current_contour_cubes,
          polydata_2d, polydata_3d, heap,
          renderer_2d, renderer_3d,
          axial_contours_per_slice, current_axial_slice,
          slider, controls_enabled, widget,
          calc_step, progress_visible, pending_advance, pending_load,
          vtp_file_index, current_vtp_actor, contours>>

----------------------------------------------------------------------------
(* Bounds of the exploration: the number of drawing sessions started and   *)
(* the number of points picked over all of them                            *)

MaxSessions == 2
MaxPoints == 3
MaxShortSessions == 1
MaxShortPoints == 2

(* Program constants *)

ZBias == 20
total_steps == 100
NumVtpFiles == 4
QSliderDefaultMax == 99

(* Inputs: the volumes a .vti file can hold, the files the user opens, the *)
(* sliders the user drags and what the picker returns                      *)

Volumes ==
  << [origin |-> <<0, 0, 0>>, spacing |-> <<2, 2, 2>>, extent |-> <<0, 1, 0, 1, 1, 2>>],
     [origin |-> <<1, 1, 1>>, spacing |-> <<2, 2, 4>>, extent |-> <<0, 1, 0, 1, 0, 0>>],
     [origin |-> <<-3, 1, 2>>, spacing |-> <<1, 2, 3>>, extent |-> <<0, 4, 0, 4, 0, 4>>],
     [origin |-> <<0, 0, 0>>, spacing |-> <<2, 2, 2>>, extent |-> <<0, 1, 0, 1, 0, 1>>],
     [origin |-> <<0, 0, 0>>, spacing |-> <<2, 2, 1>>, extent |-> <<-3, 0, 0, 1, 0, 0>>] >>

OpenedVolumes == {1}
DraggedSliders == {"axial"}
AllSliders == {"axial", "coronal", "sagittal"}
SliderValues == -3..4
PickPositions == { <<1, 2, 5>> }
OrderedPickPositions == { <<1, 2, 5>>, <<3, 1, 5>> }
ReloadedVolumes == {1, 4}

----------------------------------------------------------------------------
(* Python values *)

None == <<>>
Some(v) == <<v>>
Val(o) == o[1]

State ==
  [image_data |-> image_data, is_drawing |-> is_drawing,
   interactor_style |-> interactor_style,
   current_contour_points |-> current_contour_points,
   current_contour_actor_2d |-> current_contour_actor_2d,
   current_contour_actor_3d |-> current_contour_actor_3d,
   current_contour_cubes |-> current_contour_cubes,
   polydata_2d |-> polydata_2d, polydata_3d |-> polydata_3d, heap |-> heap,
   renderer_2d |-> renderer_2d, renderer_3d |-> renderer_3d,
   axial_contours_per_slice |-> axial_contours_per_slice,
   current_axial_slice |-> current_axial_slice,
   slider |-> slider, controls_enabled |-> controls_enabled,
   widget |-> widget,
   calc_step |-> calc_step, progress_visible |-> progress_visible,
   pending_advance |-> pending_advance, pending_load |-> pending_load,
   vtp_file_index |-> vtp_file_index,
   current_vtp_actor |-> current_vtp_actor, contours |-> contours]

Apply(st) ==
  /\ image_data' = st.image_data
  /\ is_drawing' = st.is_drawing
  /\ interactor_style' = st.interactor_style
  /\ current_contour_points' = st.current_contour_points
  /\ current_contour_actor_2d' = st.current_contour_actor_2d
  /\ current_contour_actor_3d' = st.current_contour_actor_3d
  /\ current_contour_cubes' = st.current_contour_cubes
  /\ polydata_2d' = st.polydata_2d
  /\ polydata_3d' = st.polydata_3d
  /\ heap' = st.heap
  /\ renderer_2d' = st.renderer_2d
  /\ renderer_3d' = st.renderer_3d
  /\ axial_contours_per_slice' = st.axial_contours_per_slice
  /\ current_axial_slice' = st.current_axial_slice
  /\ slider' = st.slider
  /\ controls_enabled' = st.controls_enabled
  /\ widget' = st.widget
  /\ calc_step' = st.calc_step
  /\ progress_visible' = st.progress_visible
  /\ pending_advance' = st.pending_advance
  /\ pending_load' = st.pending_load
  /\ vtp_file_index' = st.vtp_file_index
  /\ current_vtp_actor' = st.current_vtp_actor
  /\ contours' = st.contours

----------------------------------------------------------------------------
(* vtkImageData accessors *)

GetOrigin(img) == Volumes[Val(img)].origin
GetSpacing(img) == Volumes[Val(img)].spacing
GetExtent(img) == Volumes[Val(img)].extent

GetCenter(img) ==
  LET o == GetOrigin(img)
      s == GetSpacing(img)
      e == GetExtent(img)
  IN  [i \in 1..3 |-> (2 * o[i] + s[i] * (e[2 * i - 1] + e[2 * i])) \div 2]

(* dict.get(key, []) *)
DictGet(d, key) == IF key \in DOMAIN d THEN d[key] ELSE <<>>

(* the props of the 2D view that update_slices toggles for a list of records *)
Range(s) == { s[i] : i \in 1..Len(s) }

ContourVisuals2D(contour_list) ==
  UNION { {contour_info.actor2d} \cup Range(contour_info.cube_actors) :
          contour_info \in Range(contour_list) }

----------------------------------------------------------------------------
(* ImageSliceViewerWidget *)

set_input_data(st, axis, img) ==
  [st EXCEPT !.widget[axis].input = img,
             !.widget[axis].camera_reset_done = FALSE]

(* the world coordinate of a slice along world axis a *)
SlicePos_without_origin(origin, spacing, a, slice_index) ==
  slice_index * spacing[a]

SlicePos(origin, spacing, a, slice_index) ==
  origin[a] + slice_index * spacing[a]

ResliceAxes(axis, img, slice_index) ==
  LET origin == GetOrigin(img)
      spacing == GetSpacing(img)
      center == GetCenter(img)
  IN  CASE axis = "x" ->
             << <<0, 1, 0, SlicePos(origin, spacing, 1, slice_index)>>,
                <<0, 0, 1, center[2]>>,
                <<1, 0, 0, center[3]>>,
                <<0, 0, 0, 1>> >>
        [] axis = "y" ->
             << <<1, 0, 0, center[1]>>,
                <<0, 0, 1, SlicePos(origin, spacing, 2, slice_index)>>,
                <<0, 1, 0, center[3]>>,
                <<0, 0, 0, 1>> >>
        [] axis = "z" ->
             << <<1, 0, 0, center[1]>>,
                <<0, 1, 0, center[2]>>,
                <<0, 0, 1, SlicePos(origin, spacing, 3, slice_index)>>,
                <<0, 0, 0, 1>> >>

set_slice(st, axis, slice_index) ==
  IF st.widget[axis].input = None THEN st
  ELSE [st EXCEPT
          !.widget[axis].reslice_axes =
              Some(ResliceAxes(axis, st.widget[axis].input, slice_index)),
          !.widget[axis].camera_reset_done = TRUE]

----------------------------------------------------------------------------
(* VTIViewer.update_slices *)

(* step 1: remove from the 2D renderer the visuals of the previous slice *)
HidePreviousSlice_keep(st, prev_axial) == st.renderer_2d

HidePreviousSlice(st, prev_axial) ==
  IF prev_axial # None
  THEN st.renderer_2d \
         ContourVisuals2D(DictGet(st.axial_contours_per_slice, prev_axial))
  ELSE st.renderer_2d

(* step 3: add to the 2D renderer the visuals of the current slice *)
ShowCurrentSlice_none(st, axial_slice) == st.renderer_2d

ShowCurrentSlice(st, axial_slice) ==
  st.renderer_2d \cup
    ContourVisuals2D(DictGet(st.axial_contours_per_slice, Some(axial_slice)))

(* the early return of update_slices *)
NoVolumeLoaded_never(st) == FALSE

NoVolumeLoaded(st) == st.image_data = None

(* the slice whose visuals update_slices hides *)
PreviousSlice_if_in_extent(st) ==
  IF /\ st.current_axial_slice # None
     /\ Val(st.current_axial_slice) \in
          GetExtent(st.image_data)[5] .. GetExtent(st.image_data)[6]
  THEN st.current_axial_slice ELSE None

PreviousSlice(st) == st.current_axial_slice

(* the slice update_slices makes the active axial slice *)
ActiveAxialSlice_coronal(st) == st.slider["coronal"].value

ActiveAxialSlice(st) == st.slider["axial"].value

update_slices(st) ==
  IF NoVolumeLoaded(st) THEN st
  ELSE
    LET prev_axial == PreviousSlice(st)
        axial_slice == ActiveAxialSlice(st)
        coronal_slice == st.slider["coronal"].value
        sagittal_slice == st.slider["sagittal"].value
        s1 == [st EXCEPT !.current_axial_slice = Some(axial_slice),
                         !.renderer_2d = HidePreviousSlice(st, prev_axial)]
        s2 == set_slice(set_slice(set_slice(s1, "z", axial_slice),
                                  "y", coronal_slice),
                        "x", sagittal_slice)
    IN  [s2 EXCEPT !.renderer_2d = ShowCurrentSlice(s2, axial_slice)]

----------------------------------------------------------------------------
(* QSlider: setRange and setValue clamp the value and emit valueChanged,   *)
(* which is connected to update_slices, when the value changes.            *)

Clamp(v, lo, hi) == IF v < lo THEN lo ELSE IF v > hi THEN hi ELSE v

slider_setValue(st, name, v) ==
  LET s == st.slider[name]
      nv == Clamp(v, s.min, s.max)
  IN  IF nv = s.value THEN st
      ELSE update_slices([st EXCEPT !.slider[name].value = nv])

slider_setRange(st, name, lo, hi) ==
  LET mx == IF hi < lo THEN lo ELSE hi
      s1 == [st EXCEPT !.slider[name].min = lo, !.slider[name].max = mx]
  IN  slider_setValue(s1, name, st.slider[name].value)

----------------------------------------------------------------------------
(* VTIViewer.load_vti *)

ImageSlice3D(name) == [kind |-> "image_slice", axis |-> name]

(* the slice a slider is put on after a load *)
MidSlice_lowest(lo, hi) == lo

MidSlice(lo, hi) == (lo + hi) \div 2

load_vti(st, v) ==
  LET img == Some(v)
      extent == GetExtent(img)
      s0 == [st EXCEPT !.image_data = img]
      s1 == set_input_data(set_input_data(set_input_data(s0, "z", img),
                                          "y", img), "x", img)
      s2 == [s1 EXCEPT !.renderer_3d =
               { ImageSlice3D("axial"), ImageSlice3D("coronal"),
                 ImageSlice3D("sagittal") }]
      s3 == slider_setRange(s2, "sagittal", extent[1], extent[2])
      s4 == slider_setRange(s3, "coronal", extent[3], extent[4])
      s5 == slider_setRange(s4, "axial", extent[5], extent[6])
      s6 == slider_setValue(s5, "sagittal", MidSlice(extent[1], extent[2]))
      s7 == slider_setValue(s6, "coronal", MidSlice(extent[3], extent[4]))
      s8 == slider_setValue(s7, "axial", MidSlice(extent[5], extent[6]))
  IN  update_slices([s8 EXCEPT !.controls_enabled = TRUE])

----------------------------------------------------------------------------
(* VTIViewer.toggle_drawing *)

EmptyPolyData == [kind |-> "empty", pts |-> <<>>]

Actor2D(id) == [kind |-> "actor2d", id |-> id]
Actor3D(id) == [kind |-> "actor3d", id |-> id]

(* the condition under which a finished session is stored *)
HasContourPoints_any(st) == st.current_contour_points # None

HasContourPoints(st) ==
  /\ st.current_contour_points # None
  /\ Len(st.heap[Val(st.current_contour_points)].points) > 0

(* the dictionary key a finished session is stored under *)
ContourKey_slider(st) == Some(st.slider["axial"].value)

ContourKey(st) == st.current_axial_slice

(* setdefault(key, []).append(record) *)
StoreContour_overwrite(store, key, record) ==
  [k \in DOMAIN store \cup {key} |->
     IF k = key THEN <<record>> ELSE store[k]]

StoreContour(store, key, record) ==
  [k \in DOMAIN store \cup {key} |->
     IF k = key THEN Append(DictGet(store, key), record) ELSE store[k]]

(* the session attributes reset at the end of a finish *)
ResetSession_keep_actors(st) ==
  [st EXCEPT !.current_contour_points = None,
             !.current_contour_cubes = <<>>]

ResetSession(st) ==
  [st EXCEPT !.current_contour_points = None,
             !.current_contour_actor_2d = None,
             !.current_contour_actor_3d = None,
             !.current_contour_cubes = <<>>]

(* the polydata a new session starts with: no points, lines or polygons *)
FreshPolyData_from_previous(st) ==
  IF st.polydata_2d # None THEN st.heap[Val(st.polydata_2d)].polydata_2d
  ELSE EmptyPolyData

FreshPolyData(st) == EmptyPolyData

(* the objects of a new session: vtkPoints() and two vtkPolyData() *)
AllocateSession_reuse_last(st) ==
  LET fresh == [points |-> <<>>, polydata_2d |-> EmptyPolyData,
                polydata_3d |-> EmptyPolyData]
  IN  IF st.heap = <<>> THEN <<fresh>>
      ELSE [st.heap EXCEPT ![Len(st.heap)] = fresh]

AllocateSession(st) ==
  Append(st.heap, [points |-> <<>>,
                   polydata_2d |-> FreshPolyData(st),
                   polydata_3d |-> FreshPolyData(st)])

toggle_drawing(st, checked) ==
  IF checked
  THEN
    LET id == Len(AllocateSession(st))
    IN  [st EXCEPT
           !.is_drawing = TRUE,
           !.interactor_style = "contour",
           !.heap = AllocateSession(st),
           !.current_contour_points = Some(id),
           !.current_contour_cubes = <<>>,
           !.polydata_2d = Some(id),
           !.polydata_3d = Some(id),
           !.current_contour_actor_2d = Some(Actor2D(id)),
           !.current_contour_actor_3d = Some(Actor3D(id)),
           !.renderer_2d = @ \cup {Actor2D(id)},
           !.renderer_3d = @ \cup {Actor3D(id)}]
  ELSE
    LET record == [points |-> st.current_contour_points,
                   actor2d |-> Val(st.current_contour_actor_2d),
                   actor3d |-> Val(st.current_contour_actor_3d),
                   cube_actors |-> st.current_contour_cubes]
        s1 == [st EXCEPT
                 !.is_drawing = FALSE,
                 !.interactor_style = "pan",
                 !.axial_contours_per_slice =
                    IF HasContourPoints(st)
                    THEN StoreContour(@, ContourKey(st), record)
                    ELSE @]
    IN  ResetSession(s1)

----------------------------------------------------------------------------
(* VTIViewer.add_contour_point *)

CubeActor(id, k, center) ==
  [kind |-> "cube", id |-> id, k |-> k, center |-> center]

(* the control points handed to vtkParametricSpline: every stored point at *)
(* depth z, followed by the first one again                                *)
ClosedLoop_newest_first(points, z) ==
  [i \in 1..(Len(points) + 1) |->
     LET pt == IF i <= Len(points) THEN points[Len(points) + 1 - i]
               ELSE points[Len(points)]
     IN  <<pt[1], pt[2], z>>]

ClosedLoop(points, z) ==
  [i \in 1..(Len(points) + 1) |->
     LET pt == IF i <= Len(points) THEN points[i] ELSE points[1]
     IN  <<pt[1], pt[2], z>>]

(* the polydata of a curve: the spline through the closed loop from the    *)
(* second point on, a single point without line or polygon cells before    *)
CurvePolyData_always_spline(points, z) ==
  [kind |-> "spline", pts |-> ClosedLoop(points, z)]

CurvePolyData(points, z) ==
  IF Len(points) >= 2
  THEN [kind |-> "spline", pts |-> ClosedLoop(points, z)]
  ELSE [kind |-> "point", pts |-> << <<points[1][1], points[1][2], z>> >>]

(* the depth of the 3D curve's control points *)
Curve3DDepth_biased(slice_z, contour_z_2d) == contour_z_2d

Curve3DDepth(slice_z, contour_z_2d) == slice_z

(* the centre of the marker cube of a picked point *)
CubeCenter_unbiased(pos, contour_z_2d) == <<pos[1], pos[2], pos[3]>>

CubeCenter(pos, contour_z_2d) == <<pos[1], pos[2], contour_z_2d>>

(* the early return of add_contour_point *)
AddPointRejected_without_buffer_only(st) == st.current_contour_points = None

AddPointRejected(st) == ~st.is_drawing \/ st.current_contour_points = None

add_contour_point(st, pos) ==
  IF AddPointRejected(st) THEN st
  ELSE
    LET spacing == IF st.image_data # None THEN GetSpacing(st.image_data)
                   ELSE <<1, 1, 1>>
        origin == IF st.image_data # None THEN GetOrigin(st.image_data)
                  ELSE <<0, 0, 0>>
        current_slice == st.slider["axial"].value
        slice_z == origin[3] + current_slice * spacing[3]
        contour_z_2d == slice_z + spacing[3] * ZBias
        id == Val(st.current_contour_points)
        points == Append(st.heap[id].points, pos)
        num_points == Len(points)
        cube_actor == CubeActor(id, num_points, CubeCenter(pos, contour_z_2d))
    IN  [st EXCEPT
           !.heap[id].points = points,
           !.heap[Val(st.polydata_2d)].polydata_2d =
               CurvePolyData(points, contour_z_2d),
           !.heap[Val(st.polydata_3d)].polydata_3d =
               CurvePolyData(points, Curve3DDepth(slice_z, contour_z_2d)),
           !.renderer_2d = @ \cup {cube_actor},
           !.current_contour_cubes = Append(@, cube_actor)]

----------------------------------------------------------------------------
(* ContourInteractorStyle.on_left_button_press *)

(* the picked position with z forced to the current axial slice *)
ForceSliceZ_raw(st, world_pos) == world_pos

ForceSliceZ(st, world_pos) ==
  LET axial_slice == st.slider["axial"].value
  IN  IF st.image_data # None
      THEN <<world_pos[1], world_pos[2],
             GetOrigin(st.image_data)[3]
               + axial_slice * GetSpacing(st.image_data)[3]>>
      ELSE world_pos

on_left_button_press(st, pick_position) ==
  IF ~st.is_drawing THEN st
  ELSE add_contour_point(st, ForceSliceZ(st, pick_position))

----------------------------------------------------------------------------
(* vti_vtp1.py: VTIViewer.add_contour_point of the second contour tool;    *)
(* the rest of that file's state machine is the one of main.py             *)

vti_vtp1_add_contour_point(st, pos) ==
  IF ~st.is_drawing \/ st.current_contour_points = None THEN st
  ELSE
    LET spacing == IF st.image_data # None THEN GetSpacing(st.image_data)
                   ELSE <<1, 1, 1>>
        origin == IF st.image_data # None THEN GetOrigin(st.image_data)
                  ELSE <<0, 0, 0>>
        current_slice == st.slider["axial"].value
        slice_z == origin[3] + current_slice * spacing[3]
        contour_z_2d == slice_z + spacing[3] * ZBias
        adjusted_pos_2d == <<pos[1], pos[2], contour_z_2d>>
        id == Val(st.current_contour_points)
        points == Append(st.heap[id].points, adjusted_pos_2d)
        num_points == Len(points)
        cube_actor == CubeActor(id, num_points, adjusted_pos_2d)
        points_3d == [i \in 1..num_points |->
                        <<points[i][1], points[i][2], slice_z>>]
    IN  [st EXCEPT
           !.heap[id].points = points,
           !.heap[Val(st.polydata_2d)].polydata_2d =
               IF num_points < 2
               THEN [kind |-> "point", pts |-> points]
               ELSE [kind |-> "spline", pts |-> Append(points, points[1])],
           !.heap[Val(st.polydata_3d)].polydata_3d =
               IF num_points > 1
               THEN [kind |-> "polyline",
                     pts |-> Append(points_3d, points_3d[1])]
               ELSE [kind |-> "point", pts |-> points_3d],
           !.renderer_2d =
               (@ \cup {cube_actor}) \cup
                 (IF st.current_contour_actor_2d # None
                  THEN {Val(st.current_contour_actor_2d)} ELSE {}),
           !.current_contour_cubes = Append(@, cube_actor)]

vti_vtp1_on_left_button_press(st, pick_position) ==
  IF ~st.is_drawing THEN st
  ELSE vti_vtp1_add_contour_point(st, ForceSliceZ(st, pick_position))

----------------------------------------------------------------------------
(* VTIViewer.clear_current_contour *)

clear_current_contour_finish_first(st) ==
  LET s1 == IF st.is_drawing THEN toggle_drawing(st, FALSE) ELSE st
  IN  [s1 EXCEPT
         !.renderer_2d =
            IF st.current_contour_actor_2d # None
            THEN @ \ {Val(st.current_contour_actor_2d)} ELSE @,
         !.renderer_3d =
            IF st.current_contour_actor_3d # None
            THEN @ \ {Val(st.current_contour_actor_3d)} ELSE @,
         !.current_contour_points = None,
         !.current_contour_actor_2d = None,
         !.current_contour_actor_3d = None]

clear_current_contour(st) ==
  LET s1 == [st EXCEPT
               !.renderer_2d =
                  IF st.current_contour_actor_2d # None
                  THEN @ \ {Val(st.current_contour_actor_2d)} ELSE @,
               !.renderer_3d =
                  IF st.current_contour_actor_3d # None
                  THEN @ \ {Val(st.current_contour_actor_3d)} ELSE @,
               !.current_contour_points = None,
               !.current_contour_actor_2d = None,
               !.current_contour_actor_3d = None]
  IN  IF s1.is_drawing THEN toggle_drawing(s1, FALSE) ELSE s1

----------------------------------------------------------------------------
(* VTIViewer.on_calculate and load_vtp_after_calc.  The QProgressDialog is *)
(* window-modal: while it is shown the main window takes no input.  The    *)
(* QTimer.singleShot calls are counted in pending_advance and pending_load.*)

(* the test that ends the progress chain *)
CalcFinished_one_early(step) == step >= total_steps - 1

CalcFinished(step) == step >= total_steps

(* the nested advance_progress of on_calculate *)
advance_progress(st) ==
  LET step == Val(st.calc_step) + 1
  IN  IF CalcFinished(step)
      THEN [st EXCEPT !.calc_step = Some(step),
                      !.progress_visible = FALSE,
                      !.pending_load = @ + 1]
      ELSE [st EXCEPT !.calc_step = Some(step),
                      !.pending_advance = @ + 1]

(* the contours on_calculate asks for *)
ContoursForCalculate_any_slice(st) ==
  IF st.axial_contours_per_slice = <<>> THEN <<>>
  ELSE st.axial_contours_per_slice[
         CHOOSE k \in DOMAIN st.axial_contours_per_slice : TRUE]

ContoursForCalculate(st) ==
  DictGet(st.axial_contours_per_slice, st.current_axial_slice)

on_calculate(st) ==
  IF ContoursForCalculate(st) = <<>> THEN st
  ELSE advance_progress([st EXCEPT !.progress_visible = TRUE,
                                   !.calc_step = Some(0)])

VtpActor(k) == [kind |-> "vtp", id |-> k]

(* the index after a mesh was loaded *)
NextVtpIndex_same(index) == index

NextVtpIndex(index) == index + 1

(* readable: the file at vtp_file_index yields a mesh with points *)
load_vtp_after_calc(st, readable) ==
  IF st.vtp_file_index >= NumVtpFiles THEN st
  ELSE IF ~readable THEN st
  ELSE
    LET vtp_actor == VtpActor(st.vtp_file_index + 1)
        removed == IF st.current_vtp_actor # None
                   THEN st.renderer_3d \ {Val(st.current_vtp_actor)}
                   ELSE st.renderer_3d
    IN  [st EXCEPT !.renderer_3d = removed \cup {vtp_actor},
                   !.current_vtp_actor = Some(vtp_actor),
                   !.vtp_file_index = NextVtpIndex(@)]

----------------------------------------------------------------------------
(* The contour tool of vti_viewer.py: finished point lists are kept in the *)
(* list contours, the picked position is stored as it is, and the curve is *)
(* a polygon over the shared points object.                                *)

vti_viewer_toggle_drawing(st, checked) ==
  IF checked
  THEN
    LET h == Append(st.heap, [points |-> <<>>,
                              polydata_2d |-> EmptyPolyData,
                              polydata_3d |-> EmptyPolyData])
        id == Len(h)
    IN  [st EXCEPT
           !.is_drawing = TRUE,
           !.heap = h,
           !.current_contour_points = Some(id),
           !.polydata_2d = Some(id),
           !.polydata_3d = Some(id),
           !.current_contour_actor_2d = Some(Actor2D(id)),
           !.current_contour_actor_3d = Some(Actor3D(id)),
           !.renderer_2d = @ \cup {Actor2D(id)},
           !.renderer_3d = @ \cup {Actor3D(id)}]
  ELSE
    [st EXCEPT
       !.is_drawing = FALSE,
       !.contours = IF HasContourPoints(st)
                    THEN Append(@, Val(st.current_contour_points))
                    ELSE @,
       !.current_contour_points = None]

vti_viewer_add_contour_point(st, pos) ==
  IF ~st.is_drawing \/ st.current_contour_points = None THEN st
  ELSE
    LET id == Val(st.current_contour_points)
        points == Append(st.heap[id].points, pos)
        polydata2d == [kind |-> IF Len(points) < 2 THEN "point"
                                ELSE IF Len(points) = 2 THEN "line"
                                ELSE "polygon",
                       pts |-> points]
    IN  [st EXCEPT
           !.heap[id].points = points,
           !.heap[Val(st.polydata_2d)].polydata_2d = polydata2d,
           !.heap[Val(st.polydata_3d)].polydata_3d = polydata2d]

vti_viewer_on_left_button_press(st, pick_position) ==
  IF ~st.is_drawing THEN st
  ELSE vti_viewer_add_contour_point(st, pick_position)

vti_viewer_clear_current_contour(st) ==
  LET s1 == [st EXCEPT
               !.renderer_2d =
                  IF st.current_contour_actor_2d # None
                  THEN @ \ {Val(st.current_contour_actor_2d)} ELSE @,
               !.renderer_3d =
                  IF st.current_contour_actor_3d # None
                  THEN @ \ {Val(st.current_contour_actor_3d)} ELSE @,
               !.current_contour_points = None,
               !.current_contour_actor_2d = None,
               !.current_contour_actor_3d = None]
  IN  IF s1.is_drawing THEN vti_viewer_toggle_drawing(s1, FALSE) ELSE s1

----------------------------------------------------------------------------
(* Initial state: VTIViewer.__init__ followed by the __main__ block *)

Init ==
  /\ image_data = None
  /\ is_drawing = FALSE
  /\ interactor_style = "contour"
  /\ current_contour_points = None
  /\ current_contour_actor_2d = None
  /\ current_contour_actor_3d = None
  /\ current_contour_cubes = <<>>
  /\ polydata_2d = None
  /\ polydata_3d = None
  /\ heap = <<>>
  /\ renderer_2d = {}
  /\ renderer_3d = {}
  /\ axial_contours_per_slice = <<>>
  /\ current_axial_slice = None
  /\ slider = [name \in {"axial", "coronal", "sagittal"} |->
                 [min |-> 0, max |-> QSliderDefaultMax, value |-> 0]]
  /\ controls_enabled = FALSE
  /\ widget = [axis \in {"x", "y", "z"} |->
                 [input |-> None, reslice_axes |-> None,
                  camera_reset_done |-> FALSE]]
  /\ calc_step = None
  /\ progress_visible = FALSE
  /\ pending_advance = 0
  /\ pending_load = 0
  /\ vtp_file_index = 0
  /\ current_vtp_actor = None
  /\ contours = <<>>

----------------------------------------------------------------------------
(* Events *)

(* no input reaches the main window under the window-modal progress dialog *)
MainWindowAcceptsInput == ~progress_visible

OpenVti(v) ==
  /\ MainWindowAcceptsInput
  /\ v \in DOMAIN Volumes
  /\ Apply(load_vti(State, v))

SliderValueChanged(name, v) ==
  /\ MainWindowAcceptsInput
  /\ controls_enabled
  /\ v \in slider[name].min .. slider[name].max
  /\ v # slider[name].value
  /\ Apply(slider_setValue(State, name, v))

StartDrawing ==
  /\ MainWindowAcceptsInput
  /\ ~is_drawing
  /\ Len(heap) < MaxSessions
  /\ Apply(toggle_drawing(State, TRUE))

FinishDrawing ==
  /\ MainWindowAcceptsInput
  /\ is_drawing
  /\ Apply(toggle_drawing(State, FALSE))

(* the number of points picked so far, over all sessions *)
RECURSIVE PickedPoints(_)
PickedPoints(h) ==
  IF h = <<>> THEN 0 ELSE Len(Head(h).points) + PickedPoints(Tail(h))

(* under the image style the press goes to the default interaction only *)
LeftButtonPress(pick_position) ==
  /\ MainWindowAcceptsInput
  /\ is_drawing => PickedPoints(heap) < MaxPoints
  /\ Apply(IF interactor_style = "contour"
           THEN on_left_button_press(State, pick_position)
           ELSE State)

ClearCurrentContour ==
  /\ MainWindowAcceptsInput
  /\ Apply(clear_current_contour(State))

Next ==
  \/ \E v \in OpenedVolumes : OpenVti(v)
  \/ \E name \in DraggedSliders, v \in SliderValues :
       SliderValueChanged(name, v)
  \/ StartDrawing
  \/ FinishDrawing
  \/ \E p \in PickPositions : LeftButtonPress(p)
  \/ ClearCurrentContour

Spec == Init /\ [][Next]_vars

(* Browsing only: every volume opened, every slider dragged, no drawing *)
NextSlices ==
  \/ \E v \in DOMAIN Volumes : OpenVti(v)
  \/ \E name \in AllSliders, v \in SliderValues :
       SliderValueChanged(name, v)

SpecSlices == Init /\ [][NextSlices]_vars

(* Short drawing runs, for picks at several positions and for reloads *)
StartDrawingShort ==
  /\ MainWindowAcceptsInput
  /\ ~is_drawing
  /\ Len(heap) < MaxShortSessions
  /\ Apply(toggle_drawing(State, TRUE))

LeftButtonPressShort(pick_position) ==
  /\ MainWindowAcceptsInput
  /\ is_drawing => PickedPoints(heap) < MaxShortPoints
  /\ Apply(IF interactor_style = "contour"
           THEN on_left_button_press(State, pick_position)
           ELSE State)

NextPicks ==
  \/ \E v \in OpenedVolumes : OpenVti(v)
  \/ \E name \in DraggedSliders, v \in SliderValues :
       SliderValueChanged(name, v)
  \/ StartDrawingShort
  \/ FinishDrawing
  \/ \E p \in OrderedPickPositions : LeftButtonPressShort(p)
  \/ ClearCurrentContour

SpecPicks == Init /\ [][NextPicks]_vars

(* Calculate: the button, the progress timer and the mesh-load timer.  An  *)
(* advance_progress shot (300 ms) is always scheduled after a pending      *)
(* load_vtp_after_calc shot (200 ms) and so fires after it.                *)
Calculate ==
  /\ MainWindowAcceptsInput
  /\ Apply(on_calculate(State))

AdvanceProgressTimer ==
  /\ pending_advance > 0
  /\ pending_load = 0
  /\ Apply(advance_progress([State EXCEPT !.pending_advance = @ - 1]))

LoadVtpTimer(readable) ==
  /\ pending_load > 0
  /\ Apply(load_vtp_after_calc([State EXCEPT !.pending_load = @ - 1],
                               readable))

NextCalc ==
  \/ \E v \in OpenedVolumes : OpenVti(v)
  \/ StartDrawingShort
  \/ FinishDrawing
  \/ \E p \in PickPositions : LeftButtonPressShort(p)
  \/ Calculate
  \/ AdvanceProgressTimer
  \/ \E readable \in BOOLEAN : LoadVtpTimer(readable)

SpecCalc == Init /\ [][NextCalc]_vars

SpecCalcFair ==
  /\ SpecCalc
  /\ WF_vars(AdvanceProgressTimer)
  /\ WF_vars(\E readable \in BOOLEAN : LoadVtpTimer(readable))

(* The contour tool of vti_vtp1.py *)
LeftButtonPressVtp1(pick_position) ==
  /\ MainWindowAcceptsInput
  /\ is_drawing => PickedPoints(heap) < MaxShortPoints
  /\ Apply(IF interactor_style = "contour"
           THEN vti_vtp1_on_left_button_press(State, pick_position)
           ELSE State)

NextVtp1 ==
  \/ \E v \in OpenedVolumes : OpenVti(v)
  \/ \E name \in DraggedSliders, v \in SliderValues :
       SliderValueChanged(name, v)
  \/ StartDrawingShort
  \/ FinishDrawing
  \/ \E p \in OrderedPickPositions : LeftButtonPressVtp1(p)
  \/ ClearCurrentContour

SpecVtp1 == Init /\ [][NextVtp1]_vars

(* The contour tool of vti_viewer.py *)
VtiViewerStartDrawing ==
  /\ ~is_drawing
  /\ Len(heap) < MaxSessions
  /\ Apply(vti_viewer_toggle_drawing(State, TRUE))

VtiViewerFinishDrawing ==
  /\ is_drawing
  /\ Apply(vti_viewer_toggle_drawing(State, FALSE))

VtiViewerLeftButtonPress(pick_position) ==
  /\ is_drawing => PickedPoints(heap) < MaxPoints
  /\ Apply(vti_viewer_on_left_button_press(State, pick_position))

VtiViewerClearCurrentContour ==
  /\ Apply(vti_viewer_clear_current_contour(State))

NextVtiViewer ==
  \/ VtiViewerStartDrawing
  \/ VtiViewerFinishDrawing
  \/ \E p \in OrderedPickPositions : VtiViewerLeftButtonPress(p)
  \/ VtiViewerClearCurrentContour

SpecVtiViewer == Init /\ [][NextVtiViewer]_vars

NextReload ==
  \/ \E v \in ReloadedVolumes : OpenVti(v)
  \/ \E name \in AllSliders, v \in SliderValues :
       SliderValueChanged(name, v)
  \/ StartDrawingShort
  \/ FinishDrawing
  \/ \E p \in PickPositions : LeftButtonPressShort(p)
  \/ ClearCurrentContour

SpecReload == Init /\ [][NextReload]_vars

----------------------------------------------------------------------------
(* Vocabulary of the properties *)

(* the finalized records, each with the key it is stored under *)
StoredRecordsOf(store) ==
  UNION { { [key |-> k, rec |-> store[k][i]] : i \in 1..Len(store[k]) } :
          k \in DOMAIN store }

RecordVisuals2D(rec) == {rec.actor2d} \cup Range(rec.cube_actors)

ContourActors3D(renderer) == { a \in renderer : a.kind = "actor3d" }

TotalRecords(store) ==
  Cardinality(UNION { { <<k, i>> : i \in 1..Len(store[k]) } :
                      k \in DOMAIN store })

IsPrefix(a, b) == Len(a) <= Len(b) /\ SubSeq(b, 1, Len(a)) = a

(* the points held by the vtkPoints object a record or the session refers to *)
PointsOf(h, ref) == h[Val(ref)].points

(* the allocation numbers of the sessions whose record is in the store *)
StoredSessions ==
  { Val(r.rec.points) : r \in StoredRecordsOf(axial_contours_per_slice) }

(* the sessions that are over and left no record *)
DiscardedSessions ==
  { id \in 1..Len(heap) :
      id \notin StoredSessions /\ current_contour_points # Some(id) }

SliceZ(img, s) == GetOrigin(img)[3] + s * GetSpacing(img)[3]

AxialSliderStep ==
  \E v \in SliderValues : SliderValueChanged("axial", v)

----------------------------------------------------------------------------
(* C1: the 2D visuals of a finalized record are in the axial 2D renderer   *)
(* only if the record is stored under the key equal to the currently       *)
(* active axial slice index.                                               *)
C1_OnlyActiveSliceVisible2D ==
  \A r \in StoredRecordsOf(axial_contours_per_slice) :
    (RecordVisuals2D(r.rec) \cap renderer_2d # {})
      => r.key = current_axial_slice

(* C2: a slider-driven update_slices from slice p to slice n # p hides     *)
(* every record stored under p, shows every record stored under n and      *)
(* leaves the contour actors of the 3D renderer as they were.              *)
C2_SliceTransition ==
  [][ ( /\ AxialSliderStep
        /\ current_axial_slice # None
        /\ current_axial_slice' # current_axial_slice )
      =>
      ( /\ ContourVisuals2D(DictGet(axial_contours_per_slice,
                                    current_axial_slice))
             \cap renderer_2d' = {}
        /\ ContourVisuals2D(DictGet(axial_contours_per_slice',
                                    current_axial_slice'))
             \subseteq renderer_2d'
        /\ current_axial_slice' = Some(slider'["axial"].value)
        /\ ContourActors3D(renderer_3d') = ContourActors3D(renderer_3d) )
    ]_vars

(* a record drawn on one slice is hidden while another slice, which holds  *)
(* a record of its own, is the active one                                  *)
C2_Witness ==
  \E r1, r2 \in StoredRecordsOf(axial_contours_per_slice) :
    /\ r1.key # None /\ r2.key # None /\ r1.key # r2.key
    /\ current_axial_slice = r2.key
    /\ RecordVisuals2D(r1.rec) \cap renderer_2d = {}
    /\ RecordVisuals2D(r2.rec) \subseteq renderer_2d

(* C3: the contour actors of the 3D renderer are exactly the actor3d of    *)
(* the finalized records: as many as there are records, each one present.  *)
(* The actor of the session in progress is left out of the count.          *)
C3_ContourActors3DMatchStore ==
  /\ Cardinality({ a \in ContourActors3D(renderer_3d) :
                     current_contour_actor_3d # Some(a) })
       = TotalRecords(axial_contours_per_slice)
  /\ \A r \in StoredRecordsOf(axial_contours_per_slice) :
       r.rec.actor3d \in renderer_3d

(* C4: no step removes a record from the store or shortens or reorders a   *)
(* slice's list; the store changes only at a finish with at least one      *)
(* point, which adds exactly one record.                                   *)
C4_StoreOnlyGrows ==
  [][ /\ \A k \in DOMAIN axial_contours_per_slice :
           /\ k \in DOMAIN axial_contours_per_slice'
           /\ IsPrefix(axial_contours_per_slice[k],
                       axial_contours_per_slice'[k])
      /\ (axial_contours_per_slice' # axial_contours_per_slice) =>
           /\ is_drawing /\ ~is_drawing'
           /\ current_contour_points # None
           /\ Len(PointsOf(heap, current_contour_points)) > 0
           /\ TotalRecords(axial_contours_per_slice')
                = TotalRecords(axial_contours_per_slice) + 1
    ]_vars

(* a slice whose list received two records, the first still in place *)
C4_Witness ==
  \E k \in DOMAIN axial_contours_per_slice :
    /\ Len(axial_contours_per_slice[k]) >= 2
    /\ axial_contours_per_slice[k][1].actor2d.id
         < axial_contours_per_slice[k][2].actor2d.id

(* C5: the store does not change while a session is open, and a clear      *)
(* during a session leaves the store as it is and ends the session Idle    *)
(* with no current points.                                                 *)
C5_CancelLeavesStore ==
  [][ /\ (is_drawing /\ is_drawing')
           => axial_contours_per_slice' = axial_contours_per_slice
      /\ (is_drawing /\ ClearCurrentContour) =>
           /\ axial_contours_per_slice' = axial_contours_per_slice
           /\ ~is_drawing'
           /\ current_contour_points' = None
           /\ current_contour_cubes' = <<>>
    ]_vars

(* Idle after a session that held points was cancelled: its points are in  *)
(* no record                                                               *)
C5_Witness ==
  /\ ~is_drawing
  /\ \E id \in DiscardedSessions : Len(heap[id].points) >= 1
  /\ \E id \in DiscardedSessions :
       Len(heap[id].points) = 0 /\ Actor2D(id) \notin renderer_2d

(* C6: a finish with no point leaves the store as it is: no record, no key *)
C6_EmptyFinishStoresNothing ==
  [][ ( /\ FinishDrawing
        /\ Len(PointsOf(heap, current_contour_points)) = 0 )
      => axial_contours_per_slice' = axial_contours_per_slice
    ]_vars

(* Idle after a session was finished without a point: unlike a cancelled   *)
(* session its empty 2D actor is still in the renderer                     *)
C6_Witness ==
  /\ ~is_drawing
  /\ \E id \in DiscardedSessions :
       Len(heap[id].points) = 0 /\ Actor2D(id) \in renderer_2d

(* C7: a finish with at least one point appends one record, made of the    *)
(* session's points, actors and marker cubes, at the end of the list of    *)
(* the current axial slice (created if absent) and leaves the other lists  *)
(* alone; every finish leaves the session Idle and empty.                  *)
C7_FinishAppendsOneRecord ==
  [][ FinishDrawing =>
      LET key == current_axial_slice
          record == [points |-> current_contour_points,
                     actor2d |-> Val(current_contour_actor_2d),
                     actor3d |-> Val(current_contour_actor_3d),
                     cube_actors |-> current_contour_cubes]
      IN  /\ Len(PointsOf(heap, current_contour_points)) >= 1 =>
               /\ DOMAIN axial_contours_per_slice'
                    = DOMAIN axial_contours_per_slice \cup {key}
               /\ axial_contours_per_slice'[key]
                    = Append(DictGet(axial_contours_per_slice, key), record)
               /\ \A k \in DOMAIN axial_contours_per_slice \ {key} :
                    axial_contours_per_slice'[k] = axial_contours_per_slice[k]
               /\ heap' = heap
          /\ ~is_drawing'
          /\ current_contour_points' = None
          /\ current_contour_actor_2d' = None
          /\ current_contour_actor_3d' = None
          /\ current_contour_cubes' = <<>>
    ]_vars

(* Idle with a two-point record, two cubes with it, stored under a slice   *)
(* index, and a one-point record stored before any slice was active        *)
C7_Witness ==
  /\ ~is_drawing /\ current_contour_points = None
  /\ \E r \in StoredRecordsOf(axial_contours_per_slice) :
       /\ r.key # None
       /\ Len(PointsOf(heap, r.rec.points)) = 2
       /\ Len(r.rec.cube_actors) = 2
  /\ \E r \in StoredRecordsOf(axial_contours_per_slice) :
       r.key = None /\ Len(PointsOf(heap, r.rec.points)) = 1

(* C8: a clear, in any state, leaves every finalized record as it is: the  *)
(* store, the stored points, and the membership of the record's 2D and 3D  *)
(* visuals in the renderers.                                               *)
C8_ClearKeepsFinalized ==
  [][ ClearCurrentContour =>
      /\ axial_contours_per_slice' = axial_contours_per_slice
      /\ \A r \in StoredRecordsOf(axial_contours_per_slice) :
           /\ RecordVisuals2D(r.rec) \cap renderer_2d \subseteq renderer_2d'
           /\ r.rec.actor3d \in renderer_3d => r.rec.actor3d \in renderer_3d'
           /\ heap'[Val(r.rec.points)] = heap[Val(r.rec.points)]
    ]_vars

(* a session was cancelled after a record had been finalized, and the      *)
(* record's visuals are in both renderers                                  *)
C8_Witness ==
  \E r \in StoredRecordsOf(axial_contours_per_slice) :
    /\ RecordVisuals2D(r.rec) \subseteq renderer_2d
    /\ r.rec.actor3d \in renderer_3d
    /\ \E id \in DiscardedSessions :
         /\ id > Val(r.rec.points)
         /\ Actor2D(id) \notin renderer_2d

C10_RecordOnItsSlice ==
  image_data # None =>
    \A r \in StoredRecordsOf(axial_contours_per_slice) :
      LET points == PointsOf(heap, r.rec.points)
          curve3d == heap[r.rec.actor3d.id].polydata_3d.pts
          slices == GetExtent(image_data)[5] .. GetExtent(image_data)[6]
      IN  ( /\ r.key # None
            /\ \A i \in 1..Len(points) :
                 \E s \in slices : points[i][3] = SliceZ(image_data, s) )
          =>
          ( /\ \A i \in 1..Len(points) :
                 points[i][3] = SliceZ(image_data, Val(r.key))
            /\ \A i \in 1..Len(curve3d) :
                 curve3d[i][3] = SliceZ(image_data, Val(r.key)) )

PointAdded ==
  /\ is_drawing /\ current_contour_points # None
  /\ current_contour_points' = current_contour_points
  /\ Len(PointsOf(heap', current_contour_points))
       = Len(PointsOf(heap, current_contour_points)) + 1

(* the spacing and origin add_contour_point works with *)
SessionSpacingZ == IF image_data # None THEN GetSpacing(image_data)[3] ELSE 1
SessionOriginZ == IF image_data # None THEN GetOrigin(image_data)[3] ELSE 0

(* C17: after every accepted add-point the 2D and the 3D curve have the    *)
(* same number of control points with the same x and y in the same order,  *)
(* taken from the stored points; every 3D control point is at              *)
(* z = origin_z + slice * spacing_z and every 2D control point at that     *)
(* value plus 20 * spacing_z.                                              *)
C17_CurvesFromSamePoints ==
  [][ PointAdded =>
        LET points == PointsOf(heap', current_contour_points)
            c2 == heap'[Val(polydata_2d)].polydata_2d.pts
            c3 == heap'[Val(polydata_3d)].polydata_3d.pts
            z == SessionOriginZ + slider["axial"].value * SessionSpacingZ
        IN  /\ Len(c2) = Len(c3)
            /\ Len(c3) >= Len(points)
            /\ \A i \in 1..Len(c3) :
                 /\ c2[i][1] = c3[i][1] /\ c2[i][2] = c3[i][2]
                 /\ c3[i][3] = z
                 /\ c2[i][3] = z + 20 * SessionSpacingZ
            /\ \A i \in 1..Len(points) :
                 /\ c3[i][1] = points[i][1] /\ c3[i][2] = points[i][2] ]_vars

(* two points on slice 2 of the loaded volume: 3D curve at z 4, 2D at 44 *)
C17_Witness ==
  /\ is_drawing /\ image_data = Some(1) /\ current_contour_points # None
  /\ slider["axial"].value = 2
  /\ Len(PointsOf(heap, current_contour_points)) = 2
  /\ heap[Val(polydata_3d)].polydata_3d.pts
       = << <<1, 2, 4>>, <<1, 2, 4>>, <<1, 2, 4>> >>
  /\ heap[Val(polydata_2d)].polydata_2d.pts
       = << <<1, 2, 44>>, <<1, 2, 44>>, <<1, 2, 44>> >>

(* C18: an add-point that leaves the session with exactly one point makes  *)
(* both curves that single point (2D at the biased z, 3D at the slice z)   *)
(* without line or polygon cells; the closed spline is built only when the *)
(* session holds two points or more.                                       *)
C18_SinglePointNoCurve ==
  [][ PointAdded =>
        LET points == PointsOf(heap', current_contour_points)
            p2 == heap'[Val(polydata_2d)].polydata_2d
            p3 == heap'[Val(polydata_3d)].polydata_3d
            z == SessionOriginZ + slider["axial"].value * SessionSpacingZ
        IN  /\ Len(points) = 1 =>
                 /\ p2 = [kind |-> "point",
                          pts |-> << <<points[1][1], points[1][2],
                                       z + 20 * SessionSpacingZ>> >>]
                 /\ p3 = [kind |-> "point",
                          pts |-> << <<points[1][1], points[1][2], z>> >>]
            /\ Len(points) >= 2 => p2.kind = "spline" /\ p3.kind = "spline"
    ]_vars

(* one point on slice 1 of the loaded volume *)
C18_Witness ==
  /\ is_drawing /\ image_data = Some(1) /\ current_contour_points # None
  /\ PointsOf(heap, current_contour_points) = << <<1, 2, 2>> >>
  /\ heap[Val(polydata_2d)].polydata_2d
       = [kind |-> "point", pts |-> << <<1, 2, 42>> >>]
  /\ heap[Val(polydata_3d)].polydata_3d
       = [kind |-> "point", pts |-> << <<1, 2, 2>> >>]

(* as many markers as points, in the session in progress and in every     *)
(* finalized record                                                        *)
MarkersMatchPoints ==
  /\ (is_drawing /\ current_contour_points # None)
       => Len(current_contour_cubes)
            = Len(PointsOf(heap, current_contour_points))
  /\ \A r \in StoredRecordsOf(axial_contours_per_slice) :
       Len(r.rec.cube_actors) = Len(PointsOf(heap, r.rec.points))

(* C19: every accepted add-point creates one new marker cube centred at    *)
(* (x, y, biased z) of the new point, adds it to the 2D renderer and to    *)
(* nothing else, and appends it to the session's marker list; a session    *)
(* in progress has as many markers as points, and so has every finalized   *)
(* record.                                                                 *)
C19_OneMarkerPerPoint ==
  [][ /\ MarkersMatchPoints'
      /\ PointAdded =>
           LET points == PointsOf(heap', current_contour_points)
               pos == points[Len(points)]
               z == SessionOriginZ + slider["axial"].value * SessionSpacingZ
           IN  \E cube \in renderer_2d' \ renderer_2d :
                 /\ cube.kind = "cube"
                 /\ cube.center = <<pos[1], pos[2], z + 20 * SessionSpacingZ>>
                 /\ renderer_2d' = renderer_2d \cup {cube}
                 /\ current_contour_cubes' = Append(current_contour_cubes, cube)
                 /\ renderer_3d' = renderer_3d ]_vars

(* a finalized record with two points and two distinct markers, and a      *)
(* session in progress with one point and one marker                       *)
C19_Witness ==
  /\ is_drawing /\ current_contour_points # None
  /\ Len(PointsOf(heap, current_contour_points)) = 1
  /\ Len(current_contour_cubes) = 1
  /\ Range(current_contour_cubes) \subseteq renderer_2d
  /\ \E r \in StoredRecordsOf(axial_contours_per_slice) :
       /\ Len(PointsOf(heap, r.rec.points)) = 2
       /\ Cardinality(Range(r.rec.cube_actors)) = 2

(* C15: while no volume is loaded, update_slices and set_slice change      *)
(* nothing: no widget has a plane transform, current_axial_slice is unset, *)
(* and store and renderers stay as they are.                               *)
C15_NoVolumeNoOp ==
  image_data = None =>
    /\ update_slices(State) = State
    /\ \A axis \in {"x", "y", "z"}, i \in SliderValues :
         set_slice(State, axis, i) = State
    /\ \A axis \in {"x", "y", "z"} : widget[axis].reslice_axes = None
    /\ current_axial_slice = None

(* no volume, one finalized record shown in the 2D view, a session with a  *)
(* point in progress                                                       *)
C15_Witness ==
  /\ image_data = None
  /\ \E r \in StoredRecordsOf(axial_contours_per_slice) :
       RecordVisuals2D(r.rec) \subseteq renderer_2d
  /\ is_drawing /\ current_contour_points # None
  /\ Len(PointsOf(heap, current_contour_points)) = 1

(* C20: a left-button press while is_drawing is false changes nothing,     *)
(* under either interactor style; add_contour_point changes nothing when   *)
(* is_drawing is false or when there is no point buffer.                   *)
C20_PickOnlyWhileDrawing ==
  \A p \in OrderedPickPositions :
    /\ ~is_drawing => on_left_button_press(State, p) = State
    /\ LET idle == [State EXCEPT !.is_drawing = FALSE]
           no_buffer == [State EXCEPT !.current_contour_points = None]
       IN  /\ add_contour_point(idle, p) = idle
           /\ add_contour_point(no_buffer, p) = no_buffer

(* after a finish: image style, not drawing, one record in the store *)
C20_Witness ==
  /\ ~is_drawing /\ interactor_style = "pan"
  /\ current_contour_points = None
  /\ TotalRecords(axial_contours_per_slice) = 1
  /\ \E r \in StoredRecordsOf(axial_contours_per_slice) :
       Len(PointsOf(heap, r.rec.points)) = 2

(* the world axis a view cuts along, its slider, and the valid indices *)
WorldAxis(axis) == CASE axis = "x" -> 1 [] axis = "y" -> 2 [] axis = "z" -> 3
SliderOf(axis) ==
  CASE axis = "x" -> "sagittal" [] axis = "y" -> "coronal" [] axis = "z" -> "axial"
SliceIndices(img, axis) ==
  GetExtent(img)[2 * WorldAxis(axis) - 1] .. GetExtent(img)[2 * WorldAxis(axis)]

(* the transform set_slice leaves in the widget of an axis *)
TransformOf(axis, slice_index) ==
  Val(set_slice(State, axis, slice_index).widget[axis].reslice_axes)

(* C13: for every axis a and slice indices i # j of the loaded volume, the *)
(* transforms set_slice builds for (a, i) and (a, j) have the same 3x3     *)
(* part and the same translation, the volume centre, on the two other      *)
(* world axes; on world axis a the translation is                          *)
(* origin[a] + index * spacing[a], and it differs between i and j.  The    *)
(* transform each widget holds is the one of its slider's value.           *)
C13_OnlyNormalTranslationVaries ==
  image_data # None =>
    \A axis \in {"x", "y", "z"} :
      LET a == WorldAxis(axis)
      IN  /\ widget[axis].reslice_axes
               = Some(TransformOf(axis, slider[SliderOf(axis)].value))
          /\ \A i, j \in SliceIndices(image_data, axis) :
               i # j =>
                 LET Mi == TransformOf(axis, i)
                     Mj == TransformOf(axis, j)
                 IN  /\ \A r \in 1..4, c \in 1..3 : Mi[r][c] = Mj[r][c]
                     /\ Mi[4][4] = Mj[4][4]
                     /\ \A r \in (1..3) \ {a} :
                          /\ Mi[r][4] = GetCenter(image_data)[r]
                          /\ Mj[r][4] = GetCenter(image_data)[r]
                     /\ Mi[a][4] = GetOrigin(image_data)[a]
                                     + i * GetSpacing(image_data)[a]
                     /\ Mj[a][4] = GetOrigin(image_data)[a]
                                     + j * GetSpacing(image_data)[a]
                     /\ Mi[a][4] # Mj[a][4]

(* the third volume (origin (-3,1,2), spacing (1,2,3), centre (-1,5,8))    *)
(* with the sagittal slider on 0, the coronal on 4 and the axial on 3      *)
C13_Witness ==
  /\ image_data = Some(3)
  /\ widget["x"].reslice_axes
       = Some(<< <<0, 1, 0, -3>>, <<0, 0, 1, 5>>, <<1, 0, 0, 8>>,
                 <<0, 0, 0, 1>> >>)
  /\ widget["y"].reslice_axes
       = Some(<< <<1, 0, 0, -1>>, <<0, 0, 1, 9>>, <<0, 1, 0, 8>>,
                 <<0, 0, 0, 1>> >>)
  /\ widget["z"].reslice_axes
       = Some(<< <<1, 0, 0, -1>>, <<0, 1, 0, 5>>, <<0, 0, 1, 11>>,
                 <<0, 0, 0, 1>> >>)

(* the c-th column of the 3x3 part of a transform *)
Column(M, c) == <<M[1][c], M[2][c], M[3][c]>>
UnitVector(a) == [r \in 1..3 |-> IF r = a THEN 1 ELSE 0]

(* C14: in the transform a widget holds, the third column of the 3x3 part  *)
(* (the normal) is the world axis the view cuts along, and the first two   *)
(* columns (the in-plane directions) are the two other world axes:         *)
(* sagittal Y, Z with normal X; coronal X, Z with normal Y; axial X, Y     *)
(* with normal Z.                                                          *)
C14_PlaneOfEachAxis ==
  \A axis \in {"x", "y", "z"} :
    widget[axis].reslice_axes # None =>
      LET M == Val(widget[axis].reslice_axes)
          a == WorldAxis(axis)
      IN  /\ Column(M, 3) = UnitVector(a)
          /\ {Column(M, 1), Column(M, 2)}
               = { UnitVector(r) : r \in (1..3) \ {a} }

(* the x and y of a sequence of points *)
InPlane(pts) == [i \in 1..Len(pts) |-> <<pts[i][1], pts[i][2]>>]

(* C12: an accepted add-point appends the picked point to the session's    *)
(* points; when that brings the session to N >= 2 points, the control      *)
(* points of the 2D and of the 3D curve are the N points in the order they *)
(* were added followed by the first one again (N + 1 control points).      *)
C12_ClosedInReceiptOrder ==
  [][ PointAdded =>
        LET before == PointsOf(heap, current_contour_points)
            points == PointsOf(heap', current_contour_points)
            c2 == heap'[Val(polydata_2d)].polydata_2d.pts
            c3 == heap'[Val(polydata_3d)].polydata_3d.pts
            N == Len(points)
        IN  /\ SubSeq(points, 1, N - 1) = before
            /\ <<points[N][1], points[N][2]>>
                 \in { <<p[1], p[2]>> : p \in OrderedPickPositions }
            /\ N >= 2 =>
                 /\ InPlane(c2) = Append(InPlane(points), InPlane(points)[1])
                 /\ InPlane(c3) = Append(InPlane(points), InPlane(points)[1])
                 /\ c2[1] = c2[N + 1] /\ c3[1] = c3[N + 1] ]_vars

(* picked (3,1) then (1,2) on slice 1 of the loaded volume *)
C12_Witness ==
  /\ is_drawing /\ image_data = Some(1) /\ current_contour_points # None
  /\ PointsOf(heap, current_contour_points) = << <<3, 1, 2>>, <<1, 2, 2>> >>
  /\ heap[Val(polydata_3d)].polydata_3d.pts
       = << <<3, 1, 2>>, <<1, 2, 2>>, <<3, 1, 2>> >>
  /\ heap[Val(polydata_2d)].polydata_2d.pts
       = << <<3, 1, 42>>, <<1, 2, 42>>, <<3, 1, 42>> >>

(* the records stored under a slice index outside the loaded volume *)
StaleRecords(st) ==
  { r \in StoredRecordsOf(st.axial_contours_per_slice) :
      /\ r.key # None
      /\ Val(r.key) \notin SliceIndices(st.image_data, "z") }

(* C16: with a volume loaded, no record stored under a slice index outside *)
(* the volume's axial extent has a visual in the 2D renderer; a further    *)
(* update_slices, which looks the store up by key with [] as the default,  *)
(* leaves the store alone and those records hidden.                        *)
C16_StaleRecordsHidden ==
  image_data # None =>
    /\ \A r \in StaleRecords(State) :
         RecordVisuals2D(r.rec) \cap renderer_2d = {}
    /\ LET after == update_slices(State)
       IN  /\ after.axial_contours_per_slice = axial_contours_per_slice
           /\ \A r \in StaleRecords(after) :
                RecordVisuals2D(r.rec) \cap after.renderer_2d = {}

(* a record of slice 2 of the first volume, the volume with slices 0..1    *)
(* loaded after it (slider clamped to 1, then set to 0), and the slider    *)
(* moved once more                                                         *)
C16_Witness ==
  /\ image_data = Some(4)
  /\ current_axial_slice = Some(1)
  /\ \E r \in StaleRecords(State) :
       /\ r.key = Some(2)
       /\ Len(PointsOf(heap, r.rec.points)) >= 1
       /\ RecordVisuals2D(r.rec) \cap renderer_2d = {}

(* C21: no step changes a finalized record: the record stays in the store  *)
(* under its key with the same fields, and the points and the two curve    *)
(* polydata it refers to keep their contents.                              *)
C21_RecordImmutable ==
  [][ \A r \in StoredRecordsOf(axial_contours_per_slice) :
        /\ r \in StoredRecordsOf(axial_contours_per_slice')
        /\ heap'[Val(r.rec.points)] = heap[Val(r.rec.points)]
        /\ heap'[r.rec.actor2d.id] = heap[r.rec.actor2d.id]
        /\ heap'[r.rec.actor3d.id] = heap[r.rec.actor3d.id] ]_vars

(* a two-point record of the first session, untouched while the second    *)
(* session holds a point of its own                                        *)
C21_Witness ==
  /\ is_drawing /\ current_contour_points = Some(2)
  /\ Len(heap[2].points) = 1
  /\ heap[2].polydata_3d.kind = "point"
  /\ \E r \in StoredRecordsOf(axial_contours_per_slice) :
       /\ r.rec.points = Some(1)
       /\ Len(heap[1].points) = 2
       /\ heap[1].polydata_2d.kind = "spline"
       /\ Len(r.rec.cube_actors) = 2

(* C24: a step from Idle to Drawing leaves a session with a new points     *)
(* object holding no point, no marker, 2D and 3D polydata without points   *)
(* or cells, and new actors, whatever the sessions before it held.         *)
C24_StartFromEmptySession ==
  [][ (~is_drawing /\ is_drawing') =>
        /\ current_contour_points' # None
        /\ Val(current_contour_points') \notin 1..Len(heap)
        /\ PointsOf(heap', current_contour_points') = <<>>
        /\ current_contour_cubes' = <<>>
        /\ heap'[Val(polydata_2d')].polydata_2d = [kind |-> "empty", pts |-> <<>>]
        /\ heap'[Val(polydata_3d')].polydata_3d = [kind |-> "empty", pts |-> <<>>]
        /\ Val(polydata_2d') \notin 1..Len(heap)
        /\ Val(polydata_3d') \notin 1..Len(heap)
        /\ Val(current_contour_actor_2d') \notin renderer_2d
        /\ Val(current_contour_actor_3d') \notin renderer_3d
        /\ \A id \in 1..Len(heap) : heap'[id] = heap[id] ]_vars

(* the second session just started, after a first one of two points *)
C24_Witness ==
  /\ is_drawing /\ current_contour_points = Some(2)
  /\ heap[2] = [points |-> <<>>, polydata_2d |-> EmptyPolyData,
                polydata_3d |-> EmptyPolyData]
  /\ current_contour_cubes = <<>>
  /\ Len(heap[1].points) = 2
  /\ heap[1].polydata_2d.kind = "spline"

(* every slider on a slice of the loaded volume, the axial one recorded *)
SlicesWithinExtent ==
  image_data # None =>
    /\ \A axis \in {"x", "y", "z"} :
         /\ slider[SliderOf(axis)].value \in SliceIndices(image_data, axis)
         /\ widget[axis].reslice_axes # None
         /\ Val(widget[axis].reslice_axes)[WorldAxis(axis)][4]
              = GetOrigin(image_data)[WorldAxis(axis)]
                  + slider[SliderOf(axis)].value
                      * GetSpacing(image_data)[WorldAxis(axis)]
    /\ current_axial_slice = Some(slider["axial"].value)

(* C23: after every step with a volume loaded, the slice index of each     *)
(* axis lies within the volume's extent of that axis and                   *)
(* current_axial_slice is the axial slider's value; a step that loads      *)
(* another volume leaves each index at floor((lo + hi) / 2).               *)
C23_SliceIndexWithinExtent ==
  [][ /\ SlicesWithinExtent'
      /\ image_data' # image_data =>
           \A axis \in {"x", "y", "z"} :
             LET lo == GetExtent(image_data')[2 * WorldAxis(axis) - 1]
                 hi == GetExtent(image_data')[2 * WorldAxis(axis)]
                 m == slider'[SliderOf(axis)].value
             IN  2 * m <= lo + hi /\ lo + hi < 2 * m + 2 ]_vars

(* the volume with sagittal extent -3..0 just loaded: floor(-3/2) = -2 *)
C23_Witness ==
  /\ image_data = Some(5)
  /\ slider["sagittal"] = [min |-> -3, max |-> 0, value |-> -2]
  /\ slider["coronal"].value = 0
  /\ slider["axial"].value = 0
  /\ current_axial_slice = Some(0)

(* C28: moving the coronal or the sagittal slider to another slice leaves  *)
(* the 2D axial renderer, the 3D renderer, the store, the active axial     *)
(* slice and the session in progress as they were.                         *)
C28_OtherSlidersLeaveContours ==
  controls_enabled =>
    \A name \in {"coronal", "sagittal"} :
      \A v \in (slider[name].min .. slider[name].max) \ {slider[name].value} :
        LET after == slider_setValue(State, name, v)
        IN  /\ after.slider[name].value = v
            /\ after.slider["axial"] = slider["axial"]
            /\ after.renderer_2d = renderer_2d
            /\ after.renderer_3d = renderer_3d
            /\ after.axial_contours_per_slice = axial_contours_per_slice
            /\ after.current_axial_slice = current_axial_slice
            /\ after.heap = heap
            /\ after.is_drawing = is_drawing
            /\ after.current_contour_points = current_contour_points
            /\ after.current_contour_cubes = current_contour_cubes
            /\ after.current_contour_actor_2d = current_contour_actor_2d
            /\ after.current_contour_actor_3d = current_contour_actor_3d
            /\ after.polydata_2d = polydata_2d
            /\ after.polydata_3d = polydata_3d

(* the coronal and sagittal sliders moved off the middle slice while a     *)
(* session holds two points, its curve and markers on display              *)
C28_Witness ==
  /\ image_data = Some(1) /\ is_drawing /\ current_contour_points # None
  /\ slider["coronal"].value = 1 /\ slider["sagittal"].value = 1
  /\ slider["axial"].value = 1
  /\ Len(PointsOf(heap, current_contour_points)) = 2
  /\ Range(current_contour_cubes) \subseteq renderer_2d
  /\ Val(current_contour_actor_2d) \in renderer_2d
  /\ Val(current_contour_actor_3d) \in renderer_3d

(* C29: a clear during a session with at least one point (the step that    *)
(* ends Drawing without storing a record) leaves none of the session's     *)
(* visuals in a renderer: not its 2D curve actor, not its 3D curve actor,  *)
(* not one of its marker cubes.                                            *)
C29_ClearRemovesSessionVisuals ==
  [][ ( /\ is_drawing /\ ~is_drawing'
        /\ current_contour_points # None
        /\ Len(PointsOf(heap, current_contour_points)) >= 1
        /\ axial_contours_per_slice' = axial_contours_per_slice )
      =>
      /\ Val(current_contour_actor_2d) \notin renderer_2d'
      /\ Val(current_contour_actor_3d) \notin renderer_3d'
      /\ Range(current_contour_cubes) \cap renderer_2d' = {} ]_vars

(* C22: with a volume loaded, the point an accepted add-point stores in    *)
(* the session's point sequence has the exact z of the axial slice,        *)
(* origin_z + slice * spacing_z, without the depth bias.                   *)
C22_StoredPointsUnbiased ==
  [][ (PointAdded /\ image_data # None) =>
        LET points == PointsOf(heap', current_contour_points)
        IN  points[Len(points)][3]
              = SessionOriginZ + slider["axial"].value * SessionSpacingZ
    ]_vars

----------------------------------------------------------------------------
(* Calculate and the result meshes *)

StoreHasContours(store) ==
  \E k \in DOMAIN store : store[k] # <<>>

MeshActors(renderer) == { a \in renderer : a.kind = "vtp" }

(* C25: on_calculate starts the computation exactly when the list of       *)
(* finalized contours under the current axial slice index is non-empty;    *)
(* with an empty list it changes no state at all (no progress counter, no  *)
(* scheduled mesh load, vtp_file_index unchanged), whatever other slices   *)
(* hold and whether or not a session with points is in progress.           *)
C25_CalculateNeedsContourOnSlice ==
  LET after == on_calculate(State)
  IN  IF DictGet(axial_contours_per_slice, current_axial_slice) = <<>>
      THEN after = State
      ELSE /\ after.progress_visible
           /\ after.calc_step = Some(1)
           /\ after.vtp_file_index = vtp_file_index

C25_Witness ==
  /\ ~progress_visible
  /\ DictGet(axial_contours_per_slice, current_axial_slice) = <<>>
  /\ StoreHasContours(axial_contours_per_slice)
  /\ calc_step = None /\ pending_load = 0 /\ vtp_file_index = 0

(* C27: vtp_file_index stays within 0..4; a step changes it only by adding *)
(* one, and only as a mesh load that removes the previous mesh actor from  *)
(* the 3D renderer and adds the new current one; a load with the list      *)
(* exhausted or an unreadable file leaves index and current mesh actor     *)
(* unchanged; the 3D renderer never holds more than one mesh actor.        *)
C27_VtpIndexAndSingleMesh ==
  [][ /\ vtp_file_index' \in 0..NumVtpFiles
      /\ NumVtpFiles = 4
      /\ Cardinality(MeshActors(renderer_3d')) <= 1
      /\ vtp_file_index' \in {vtp_file_index, vtp_file_index + 1}
      /\ vtp_file_index' = vtp_file_index
           => current_vtp_actor' = current_vtp_actor
      /\ vtp_file_index' # vtp_file_index
           => /\ pending_load' = pending_load - 1
              /\ current_vtp_actor' # None
              /\ current_vtp_actor' # current_vtp_actor
              /\ MeshActors(renderer_3d') = {Val(current_vtp_actor')}
      /\ LET exhausted == load_vtp_after_calc(State, TRUE)
             unreadable == load_vtp_after_calc(State, FALSE)
         IN  /\ unreadable = State
             /\ vtp_file_index >= NumVtpFiles => exhausted = State
             /\ vtp_file_index < NumVtpFiles
                  => exhausted.vtp_file_index = vtp_file_index + 1 ]_vars

C27_Witness ==
  /\ vtp_file_index = NumVtpFiles
  /\ pending_load = 1
  /\ current_vtp_actor = Some(VtpActor(NumVtpFiles))
  /\ MeshActors(renderer_3d) = {VtpActor(NumVtpFiles)}

(* C26: after an accepted Calculate the progress counter runs through 1,   *)
(* 2, ..., 100 without skipping, each timer tick adding one; the step that *)
(* reaches 100 schedules load_vtp_after_calc once and no further tick; and *)
(* with timers delivered fairly every accepted Calculate reaches 100 and   *)
(* its mesh-load step runs.                                                *)
C26_ProgressRunsToMeshLoad ==
  /\ [][ /\ calc_step' # None => Val(calc_step') \in 1..total_steps
         /\ total_steps = 100
         /\ calc_step' # calc_step
              => \/ /\ ~progress_visible
                    /\ calc_step' = Some(1)
                    /\ progress_visible' /\ pending_advance' = 1
                 \/ /\ progress_visible /\ pending_advance = 1
                    /\ calc_step' = Some(Val(calc_step) + 1)
         /\ progress_visible' <=> pending_advance' = 1
         /\ pending_advance' \in 0..1 /\ pending_load' \in 0..1
         /\ pending_load' > pending_load
              <=> calc_step = Some(total_steps - 1) /\ calc_step' = Some(total_steps)
         /\ calc_step' = Some(total_steps) => pending_advance' = 0 ]_vars
  /\ progress_visible ~> (calc_step = Some(total_steps) /\ pending_load = 1)
  /\ (pending_load = 1) ~> (pending_load = 0)

C26_Witness ==
  /\ calc_step = Some(total_steps)
  /\ ~progress_visible
  /\ pending_load = 1 /\ pending_advance = 0
  /\ vtp_file_index = 1

----------------------------------------------------------------------------
(* The contour tool of vti_viewer.py *)

(* C30: in vti_viewer.py every finished contour with at least one point    *)
(* keeps its 2D actor in the axial renderer and its 3D actor in the 3D     *)
(* renderer after any later start, pick, finish or clear_current_contour.  *)
C30_FinishedContourStaysDisplayed ==
  \A i \in 1..Len(contours) :
    /\ Actor2D(contours[i]) \in renderer_2d
    /\ Actor3D(contours[i]) \in renderer_3d

====
